---- MODULE Spec2Model ----
(***************************************************************************)
(* A model of penn/core.py: the framer (preprocess), the cached inference  *)
(* runner (infer), the postprocessor (postprocess) and the orchestrators   *)
(* (from_audio, from_file_to_file, from_files_to_files).                   *)
(*                                                                         *)
(* Each part of the pipeline has its own specification over the shared     *)
(* variables; the variables a specification does not use keep their idle   *)
(* values.                                                                 *)
(*   SpecPre      one iteration of the generator preprocess                *)
(*   SpecInfer    a sequence of calls of infer by one thread               *)
(*   SpecReliable the same, with library calls that do not fail            *)
(*   SpecThreads  calls of infer by two threads, interleaved               *)
(*   SpecPost     one call of postprocess                                  *)
(*   SpecAudio    one call of from_audio                                   *)
(*   SpecFiles    one call of from_files_to_files                          *)
(***************************************************************************)
EXTENDS Integers, Sequences, FiniteSets, TLC

\* ---------------------------------------------------------------- bounds
MaxWindow == 4
MaxHop == 5
MaxSamples == 10
MaxBatch == 3
MaxCalls == 3
ThreadCalls == 2
MaxPostFrames == 2
MaxAudioFrames == 3
MaxFiles == 3

\* batch_size=None (the default of preprocess and from_audio)
None == 0 - 1

\* =========================================================================
\* preprocess (the framer)
\* =========================================================================
VARIABLES
    window,        \* penn.WINDOW_SIZE, in samples
    hopsize,       \* the hop size in samples (after seconds_to_samples)
    samples,       \* audio.shape[-1] after resampling
    batch_size,    \* the batch_size argument: None or a positive integer
    ppc,           \* where the generator is: start, loop, done, error
    perr,          \* which call raised: none, pad, range, unfold
    total_frames,  \* the local total_frames
    padded,        \* audio.shape[-1] after padding
    step,          \* the local batch_size after defaulting (the range step)
    i,             \* the loop variable
    yielded        \* the batches yielded so far

preVars == <<window, hopsize, samples, batch_size, ppc, perr, total_frames,
             padded, step, i, yielded>>

\* The attributes infer keeps on itself (the cached model handle), the
\* model objects they refer to, and the calls of infer in progress.
VARIABLES
    models,             \* the model objects made so far, by identity
    infer_model,        \* infer.model: a model's identity, 0 before it is set
    infer_checkpoint,   \* infer.checkpoint
    infer_device_type,  \* infer.device_type
    tpc,                \* per thread: where its call of infer is
    targs,              \* per thread: the checkpoint and frames.device passed
    moved,              \* per thread: the model .to(frames.device) returned
    ctx,                \* per thread: the model inference_context was given
    used,               \* per thread: the model the forward pass ran on
    loaded,             \* per thread: whether this call loaded weights
    pre,                \* per thread: the handle as the call found it
    prev,               \* the arguments of the call before this one
    calls,              \* per thread: the calls made
    raced               \* whether a thread wrote while another was in a call

inferVars == <<models, infer_model, infer_checkpoint, infer_device_type, tpc,
               targs, moved, ctx, used, loaded, pre, prev, calls, raced>>

\* One call of postprocess: the configuration it reads, its arguments and
\* what it returns.
VARIABLES
    DECODER,       \* penn.DECODER, as a sequence of characters
    PERIODICITY,   \* penn.PERIODICITY, as a sequence of characters
    fmin,          \* the fmin argument, in steps of 1/SubBin of a bin
    fmax,          \* the fmax argument, in the same steps
    logits,        \* the logits argument, one row of scores per frame
    qpc,           \* start, returned or raised
    post           \* what the call did: its result or its exception

postVars == <<DECODER, PERIODICITY, fmin, fmax, logits, qpc, post>>

\* One call of from_audio.
VARIABLES
    apc,              \* where from_audio is
    gpu,              \* the gpu argument: None or an index
    net,              \* the logits the model gave, frame by frame
    pitch,            \* the local list pitch
    periodicity,      \* the local list periodicity
    result            \* what from_audio returned

audioVars == <<apc, gpu, net, pitch, periodicity, result>>

\* One call of from_files_to_files.
VARIABLES
    files,            \* the files argument
    output_prefixes,  \* the output_prefixes argument: None or a list
    fpc,              \* where from_files_to_files is
    pairs,            \* what zip(files, output_prefixes) still holds
    current,          \* the file and prefix from_file_to_file was given
    disk,             \* the artifacts on disk: path -> the file it is of
    log               \* what was done, in order

fileVars == <<files, output_prefixes, fpc, pairs, current, disk, log>>

vars == <<preVars, inferVars, postVars, audioVars, fileVars>>

Min(a, b) == IF a <= b THEN a ELSE b
Max(a, b) == IF a >= b THEN a ELSE b

\* Python's int(x / 2) for an integer x: truncation toward zero.
IntHalf(x) == IF x >= 0 THEN x \div 2 ELSE 0 - ((0 - x) \div 2)

\* total_frames = int(audio.shape[-1] / hopsize)
TotalFrames(S, H) == S \div H

\* padding = int((penn.WINDOW_SIZE - hopsize) / 2)
Padding(W, H) == IntHalf(W - H)

\* The length of torch.nn.functional.pad(audio, (padding, padding)); a
\* negative padding crops.
PaddedLen(S, W, H) == S + 2 * Padding(W, H)

\* pad raises when the cropped result would have a negative length.
PadRaises(L) == L < 0

\* batch_size = total_frames if batch_size is None else batch_size
DefaultBatch(total, B) == IF B = None THEN total ELSE B

\* batch = min(total_frames - i, batch_size)
BatchLen(total, idx, bs) == Min(total - idx, bs)

\* start = i * hopsize
BatchStart(idx, H) == idx * H

\* end = start + int((batch - 1) * hopsize) + penn.WINDOW_SIZE
BatchEnd(idx, batch, H, W) == BatchStart(idx, H) + (batch - 1) * H + W

\* The length of audio[..., start:end] for 0 <= start: a slice is clamped
\* to the sequence.
SliceLen(start, end, L) == Max(0, Min(end, L) - Min(start, L))

\* The number of sliding blocks unfold makes of a row of L samples with
\* kernel_size (1, W) and stride (1, H); no block fits when L < W, and
\* unfold raises: -1 stands for that.
UnfoldFrames(L, W, H) == IF L < W THEN 0 - 1 ELSE (L - W) \div H + 1

\* Before preprocess is called.
IdlePre ==
    /\ window = 1
    /\ hopsize = 1
    /\ samples = 0
    /\ batch_size = None
    /\ ppc = "idle"
    /\ perr = "none"
    /\ total_frames = 0
    /\ padded = 0
    /\ step = 0
    /\ i = 0
    /\ yielded = <<>>

InitPre ==
    /\ window \in 1..MaxWindow
    /\ hopsize \in 1..MaxHop
    /\ samples \in 0..MaxSamples
    /\ batch_size \in {None} \cup (1..MaxBatch)
    /\ ppc = "start"
    /\ perr = "none"
    /\ total_frames = 0
    /\ padded = 0
    /\ step = 0
    /\ i = 0
    /\ yielded = <<>>

\* The generator's body up to the loop: lines 292-310. pad raises on a
\* negative length; range(0, total_frames, 0) raises ValueError.
PreprocessStartStep ==
    /\ ppc = "start"
    /\ total_frames' = TotalFrames(samples, hopsize)
    /\ IF PadRaises(PaddedLen(samples, window, hopsize))
       THEN /\ ppc' = "error"
            /\ perr' = "pad"
            /\ UNCHANGED <<padded, step>>
       ELSE /\ padded' = PaddedLen(samples, window, hopsize)
            /\ step' = DefaultBatch(total_frames', batch_size)
            /\ IF step' = 0
               THEN ppc' = "error" /\ perr' = "range"
               ELSE ppc' = "loop" /\ perr' = "none"
    /\ UNCHANGED <<window, hopsize, samples, batch_size, i, yielded>>

PreprocessStart ==
    PreprocessStartStep /\ UNCHANGED <<inferVars, postVars, audioVars, fileVars>>

\* One pass of the loop body, lines 310-325: slice, unfold, yield.
PreprocessBatchStep ==
    /\ ppc = "loop"
    /\ i < total_frames
    /\ LET batch == BatchLen(total_frames, i, step)
           start == BatchStart(i, hopsize)
           end == BatchEnd(i, batch, hopsize, window)
           n == UnfoldFrames(SliceLen(start, end, padded), window, hopsize)
       IN IF n < 0
          THEN /\ ppc' = "error"
               /\ perr' = "unfold"
               /\ UNCHANGED <<i, yielded>>
          ELSE /\ yielded' = Append(yielded,
                      [first |-> i, batch |-> batch, frames |-> n,
                       start |-> start, end |-> end])
               /\ i' = i + step
               /\ UNCHANGED <<ppc, perr>>
    /\ UNCHANGED <<window, hopsize, samples, batch_size, total_frames,
                   padded, step>>

PreprocessBatch ==
    PreprocessBatchStep /\ UNCHANGED <<inferVars, postVars, audioVars, fileVars>>

\* range is exhausted: the generator returns.
PreprocessDoneStep ==
    /\ ppc = "loop"
    /\ i >= total_frames
    /\ ppc' = "done"
    /\ UNCHANGED <<window, hopsize, samples, batch_size, perr, total_frames,
                   padded, step, i, yielded>>

PreprocessDone ==
    PreprocessDoneStep /\ UNCHANGED <<inferVars, postVars, audioVars, fileVars>>

NextPre == PreprocessStart \/ PreprocessBatch \/ PreprocessDone

\* ------------------------------------------------------------------------
\* Claims about preprocess
\* ------------------------------------------------------------------------
RECURSIVE SumBatch(_)
SumBatch(ys) == IF ys = <<>> THEN 0
                ELSE ys[Len(ys)].batch + SumBatch(SubSeq(ys, 1, Len(ys) - 1))

PreFinished == ppc \in {"done", "error"}

\* Each batch starts at the frame after the last frame of the batch before.
Contiguous ==
    \A k \in DOMAIN yielded :
        /\ yielded[k].batch > 0
        /\ yielded[k].first = SumBatch(SubSeq(yielded, 1, k - 1))

\* C1: once the iteration of preprocess has ended, the batch lengths it
\* yielded sum to floor(S / H) and the batches cover the frames
\* 0..floor(S/H)-1 in increasing order, none dropped and none twice.
C1_FramesCovered ==
    PreFinished =>
        /\ SumBatch(yielded) = samples \div hopsize
        /\ Contiguous

\* C1 on the iterations that end without raising.
C1_FramesCoveredWhenDone ==
    ppc = "done" =>
        /\ SumBatch(yielded) = samples \div hopsize
        /\ Contiguous

\* C2: when the audio is shorter than one hop, the iteration raises nothing
\* and yields nothing, whatever batch_size is (None included).
C2_EmptyNoError ==
    (ppc # "start" /\ samples < hopsize) =>
        /\ ppc # "error"
        /\ yielded = <<>>

\* The frames the last batch is left with.
LastBatch(total, bs) == IF total % bs = 0 THEN bs ELSE total % bs

\* C10: every batch's sample range [start, end) lies inside the padded
\* audio, its frame tensor holds as many frames as the batch length yielded
\* with it, every batch but the last has batch_size frames and the last has
\* the rest.
C10_BatchShape ==
    /\ perr # "unfold"
    /\ \A k \in DOMAIN yielded :
        /\ yielded[k].start >= 0
        /\ yielded[k].end <= padded
        /\ yielded[k].frames = yielded[k].batch
        /\ k < Len(yielded) => yielded[k].frames = step
    /\ (ppc = "done" /\ yielded # <<>>) =>
        yielded[Len(yielded)].frames = LastBatch(total_frames, step)

\* C10 where WINDOW_SIZE - hopsize is even or negative.
C10_BatchShapeEven ==
    (window - hopsize < 0 \/ (window - hopsize) % 2 = 0) => C10_BatchShape

\* =========================================================================
\* infer (the inference runner and its cached model handle)
\* =========================================================================
Checkpoints == {"a.pt", "b.pt"}

CPU == [type |-> "cpu", index |-> 0]

\* frames.device: 'cpu', 'cuda:0' or 'cuda:1' (from_audio, line 57)
Devices == {CPU, [type |-> "cuda", index |-> 0], [type |-> "cuda", index |-> 1]}

\* One device of each type.
DeviceTypes == {CPU, [type |-> "cuda", index |-> 0]}

Threads == {1, 2}

NoArgs == [checkpoint |-> "none", device |-> CPU]
NoCall == [called |-> FALSE, checkpoint |-> "none", device_type |-> "none"]
NoModel == [id |-> 0, checkpoint |-> "none", device |-> CPU, training |-> TRUE]

\* The handle as a call finds it.
Handle == [model |-> infer_model, checkpoint |-> infer_checkpoint,
           device_type |-> infer_device_type]

\* A thread is inside a call of infer.
InCall(t) == tpc[t] \notin {"idle", "returned", "raised"}

\* A write by thread t falls inside another thread's call.
Overlaps(t) == \E u \in Threads \ {t} : InCall(u)

\* Before infer is ever called: the function has no attributes.
IdleInfer ==
    /\ models = <<>>
    /\ infer_model = 0
    /\ infer_checkpoint = "unset"
    /\ infer_device_type = "unset"
    /\ tpc = [t \in Threads |-> "idle"]
    /\ targs = [t \in Threads |-> NoArgs]
    /\ moved = [t \in Threads |-> 0]
    /\ ctx = [t \in Threads |-> 0]
    /\ used = [t \in Threads |-> NoModel]
    /\ loaded = [t \in Threads |-> FALSE]
    /\ pre = [t \in Threads |-> Handle]
    /\ prev = [t \in Threads |-> NoCall]
    /\ calls = [t \in Threads |-> 0]
    /\ raced = FALSE

\* The calls of infer made so far, by all threads.
CallsMade == calls[1] + calls[2]

\* A call of infer(frames, checkpoint) begins; limit bounds the calls made.
CallStep(t, ck, dev, limit) ==
    /\ ~InCall(t)
    /\ CallsMade < limit
    /\ tpc' = [tpc EXCEPT ![t] = "check"]
    /\ targs' = [targs EXCEPT ![t] = [checkpoint |-> ck, device |-> dev]]
    /\ prev' = [prev EXCEPT ![t] =
                  IF calls[t] = 0 THEN NoCall
                  ELSE [called |-> TRUE, checkpoint |-> targs[t].checkpoint,
                        device_type |-> targs[t].device.type]]
    /\ pre' = [pre EXCEPT ![t] = Handle]
    /\ loaded' = [loaded EXCEPT ![t] = FALSE]
    /\ used' = [used EXCEPT ![t] = NoModel]
    /\ moved' = [moved EXCEPT ![t] = 0]
    /\ ctx' = [ctx EXCEPT ![t] = 0]
    /\ calls' = [calls EXCEPT ![t] = @ + 1]
    /\ UNCHANGED <<models, infer_model, infer_checkpoint, infer_device_type,
                   raced>>

Call(t, ck, dev, limit) ==
    /\ CallStep(t, ck, dev, limit)
    /\ UNCHANGED <<preVars, postVars, audioVars, fileVars>>

\* The condition without its device type test.
NeedsLoadIgnoringDevice(ck, dev) ==
    \/ infer_model = 0
    \/ infer_checkpoint # ck

\* The condition without its checkpoint test.
NeedsLoadIgnoringCheckpoint(ck, dev) ==
    \/ infer_model = 0
    \/ infer_device_type # dev.type

\* The condition of lines 212-216.
NeedsLoad(ck, dev) ==
    \/ infer_model = 0
    \/ infer_checkpoint # ck
    \/ infer_device_type # dev.type

\* Lines 212-216: decide whether to load.
Check(t) ==
    /\ tpc[t] = "check"
    /\ tpc' = [tpc EXCEPT ![t] =
                 IF NeedsLoad(targs[t].checkpoint, targs[t].device)
                 THEN "load" ELSE "context"]
    /\ UNCHANGED <<models, infer_model, infer_checkpoint, infer_device_type,
                   targs, moved, ctx, used, loaded, pre, prev, calls, raced>>
    /\ UNCHANGED <<preVars, postVars, audioVars, fileVars>>

\* The model penn.checkpoint.load returns: a fresh penn.Model() holding the
\* checkpoint's weights, in host memory and in training mode.
LoadedModel(ck) == [checkpoint |-> ck, device |-> CPU, training |-> TRUE]

\* Lines 219-222: infer.model, *_ = penn.checkpoint.load(checkpoint, model).
\* When load raises nothing is assigned.
Load(t, ok) ==
    /\ tpc[t] = "load"
    /\ loaded' = [loaded EXCEPT ![t] = TRUE]
    /\ IF ok
       THEN /\ models' = Append(models, LoadedModel(targs[t].checkpoint))
            /\ infer_model' = Len(models) + 1
            /\ tpc' = [tpc EXCEPT ![t] = "set_checkpoint"]
            /\ raced' = (raced \/ Overlaps(t))
       ELSE /\ tpc' = [tpc EXCEPT ![t] = "raised"]
            /\ UNCHANGED <<models, infer_model, raced>>
    /\ UNCHANGED <<infer_checkpoint, infer_device_type, targs, moved, ctx,
                   used, pre, prev, calls>>
    /\ UNCHANGED <<preVars, postVars, audioVars, fileVars>>

\* Line 223: infer.checkpoint = checkpoint
SetCheckpoint(t) ==
    /\ tpc[t] = "set_checkpoint"
    /\ infer_checkpoint' = targs[t].checkpoint
    /\ tpc' = [tpc EXCEPT ![t] = "set_device_type"]
    /\ raced' = (raced \/ Overlaps(t))
    /\ UNCHANGED <<models, infer_model, infer_device_type, targs, moved, ctx,
                   used, loaded, pre, prev, calls>>
    /\ UNCHANGED <<preVars, postVars, audioVars, fileVars>>

\* Line 224: infer.device_type = frames.device.type
SetDeviceType(t) ==
    /\ tpc[t] = "set_device_type"
    /\ infer_device_type' = targs[t].device.type
    /\ tpc' = [tpc EXCEPT ![t] = "to"]
    /\ raced' = (raced \/ Overlaps(t))
    /\ UNCHANGED <<models, infer_model, infer_checkpoint, targs, moved, ctx,
                   used, loaded, pre, prev, calls>>
    /\ UNCHANGED <<preVars, postVars, audioVars, fileVars>>

\* Line 227, right-hand side: infer.model.to(frames.device) moves the model
\* infer.model refers to now, in place, and returns it; nothing moves (and
\* nothing can fail) when it is on that device already.
MoveToDevice(t, ok) ==
    /\ tpc[t] = "to"
    /\ LET m == infer_model
       IN IF models[m].device = targs[t].device
          THEN /\ ok
               /\ moved' = [moved EXCEPT ![t] = m]
               /\ tpc' = [tpc EXCEPT ![t] = "store"]
               /\ UNCHANGED <<models, raced>>
          ELSE IF ok
          THEN /\ models' = [models EXCEPT ![m].device = targs[t].device]
               /\ moved' = [moved EXCEPT ![t] = m]
               /\ tpc' = [tpc EXCEPT ![t] = "store"]
               /\ raced' = (raced \/ Overlaps(t))
          ELSE /\ tpc' = [tpc EXCEPT ![t] = "raised"]
               /\ UNCHANGED <<models, moved, raced>>
    /\ UNCHANGED <<infer_model, infer_checkpoint, infer_device_type, targs,
                   ctx, used, loaded, pre, prev, calls>>
    /\ UNCHANGED <<preVars, postVars, audioVars, fileVars>>

\* Line 227, the assignment: infer.model = <the model .to returned>
StoreMoved(t) ==
    /\ tpc[t] = "store"
    /\ infer_model' = moved[t]
    /\ tpc' = [tpc EXCEPT ![t] = "context"]
    /\ raced' = (raced \/ Overlaps(t))
    /\ UNCHANGED <<models, infer_checkpoint, infer_device_type, targs, moved,
                   ctx, used, loaded, pre, prev, calls>>
    /\ UNCHANGED <<preVars, postVars, audioVars, fileVars>>

\* Line 233 and lines 346-349: inference_context(infer.model) is entered and
\* puts the model it was given in evaluation mode.
EnterContext(t) ==
    /\ tpc[t] = "context"
    /\ ctx' = [ctx EXCEPT ![t] = infer_model]
    /\ models' = [models EXCEPT ![infer_model].training = FALSE]
    /\ tpc' = [tpc EXCEPT ![t] = "forward"]
    /\ raced' = (raced \/ Overlaps(t))
    /\ UNCHANGED <<infer_model, infer_checkpoint, infer_device_type, targs,
                   moved, used, loaded, pre, prev, calls>>
    /\ UNCHANGED <<preVars, postVars, audioVars, fileVars>>

\* The forward pass can only run with the model on the frames' device.
ForwardRuns(model, dev) == model.device = dev

\* Line 236: logits = infer.model(frames). The forward pass raises when the
\* model is not on the frames' device, and may raise otherwise; an exception
\* leaves inference_context at its yield, past no model.train().
Forward(t, ok) ==
    /\ tpc[t] = "forward"
    /\ LET m == infer_model
       IN /\ used' = [used EXCEPT ![t] =
                        [id |-> m, checkpoint |-> models[m].checkpoint,
                         device |-> models[m].device,
                         training |-> models[m].training]]
          /\ tpc' = [tpc EXCEPT ![t] =
                       IF ok /\ ForwardRuns(models[m], targs[t].device)
                       THEN "exit" ELSE "raised"]
    /\ UNCHANGED <<models, infer_model, infer_checkpoint, infer_device_type,
                   targs, moved, ctx, loaded, pre, prev, calls, raced>>
    /\ UNCHANGED <<preVars, postVars, audioVars, fileVars>>

\* Line 363 and line 242: the context exits through model.train() and infer
\* returns the logits.
ExitContext(t) ==
    /\ tpc[t] = "exit"
    /\ models' = [models EXCEPT ![ctx[t]].training = TRUE]
    /\ tpc' = [tpc EXCEPT ![t] = "returned"]
    /\ raced' = (raced \/ Overlaps(t))
    /\ UNCHANGED <<infer_model, infer_checkpoint, infer_device_type, targs,
                   moved, ctx, used, loaded, pre, prev, calls>>
    /\ UNCHANGED <<preVars, postVars, audioVars, fileVars>>

\* One caller, calling infer again and again; the library calls may raise.
InitInfer == IdleInfer

NextInfer ==
    \/ \E ck \in Checkpoints, dev \in Devices : Call(1, ck, dev, MaxCalls)
    \/ Check(1)
    \/ \E ok \in BOOLEAN : Load(1, ok)
    \/ SetCheckpoint(1)
    \/ SetDeviceType(1)
    \/ \E ok \in BOOLEAN : MoveToDevice(1, ok)
    \/ StoreMoved(1)
    \/ EnterContext(1)
    \/ \E ok \in BOOLEAN : Forward(1, ok)
    \/ ExitContext(1)

\* One caller whose library calls succeed: the checkpoint loads, the model
\* moves, and the forward pass raises only for a model that is not on the
\* frames' device.
NextReliable ==
    \/ \E ck \in Checkpoints, dev \in Devices : Call(1, ck, dev, MaxCalls)
    \/ Check(1)
    \/ Load(1, TRUE)
    \/ SetCheckpoint(1)
    \/ SetDeviceType(1)
    \/ MoveToDevice(1, TRUE)
    \/ StoreMoved(1)
    \/ EnterContext(1)
    \/ Forward(1, TRUE)
    \/ ExitContext(1)

\* Two threads calling infer at once, on the host or on one accelerator;
\* the library calls succeed.
NextThreads ==
    \E t \in Threads :
        \/ \E ck \in Checkpoints, dev \in DeviceTypes :
              Call(t, ck, dev, ThreadCalls)
        \/ Check(t)
        \/ Load(t, TRUE)
        \/ SetCheckpoint(t)
        \/ SetDeviceType(t)
        \/ MoveToDevice(t, TRUE)
        \/ StoreMoved(t)
        \/ EnterContext(t)
        \/ Forward(t, TRUE)
        \/ ExitContext(t)

\* ------------------------------------------------------------------------
\* Claims about infer
\* ------------------------------------------------------------------------
CallEnded(t) == tpc[t] \in {"returned", "raised"}

\* After a call that returns, the handle names that call's checkpoint and
\* device type.
HandleNamesCall(t) ==
    tpc[t] = "returned" =>
        /\ infer_checkpoint = targs[t].checkpoint
        /\ infer_device_type = targs[t].device.type

\* C3: a call loads weights exactly when it is the first call or its
\* checkpoint or device type differs from the previous call's, and after a
\* call that returns the handle names that call's checkpoint and device type.
C3_LoadsIffDiffersFromPrevious ==
    CallEnded(1) =>
        /\ loaded[1] <=>
              \/ ~prev[1].called
              \/ targs[1].checkpoint # prev[1].checkpoint
              \/ targs[1].device.type # prev[1].device_type
        /\ HandleNamesCall(1)

\* C3, amended: a call loads weights exactly when no model is cached or its
\* checkpoint or device type differs from the cached ones (those of the last
\* call whose load succeeded), and after a call that returns the handle
\* names that call's checkpoint and device type.
C3_LoadsIffDiffersFromCached ==
    CallEnded(1) =>
        /\ loaded[1] <=>
              \/ pre[1].model = 0
              \/ targs[1].checkpoint # pre[1].checkpoint
              \/ targs[1].device.type # pre[1].device_type
        /\ HandleNamesCall(1)

\* A later call returns having reused the cached model.
C3_Reused == tpc[1] = "returned" /\ ~loaded[1] /\ calls[1] >= 2

\* The forward pass of t ran on a model loaded from another checkpoint.
WrongModel(t) == used[t].id # 0 /\ used[t].checkpoint # targs[t].checkpoint

Quiescent == \A t \in Threads : ~InCall(t)

\* infer.checkpoint and infer.device_type describe infer.model.
HandleDescribesModel ==
    infer_model # 0 =>
        /\ models[infer_model].checkpoint = infer_checkpoint
        /\ models[infer_model].device.type = infer_device_type

\* C9: the handle is safe as long as no thread writes it during another
\* thread's call: every forward pass runs on a model loaded from the
\* checkpoint its caller passed, and between calls the cached fields
\* describe the cached model. (That concurrent calls break both is the
\* witness.)
C9_SafeUnlessRaced ==
    ~raced =>
        /\ \A t \in Threads : ~WrongModel(t)
        /\ Quiescent => HandleDescribesModel

\* Two concurrent calls with different checkpoints: one ran its forward
\* pass on the model the other loaded.
C9_RanOnOthersModel ==
    \E t \in Threads :
        /\ WrongModel(t)
        /\ \E u \in Threads \ {t} :
              targs[u].checkpoint # targs[t].checkpoint

\* After concurrent calls the cached fields do not describe the model.
C9_FieldsOffModel == Quiescent /\ ~HandleDescribesModel

\* The model inference_context was given is in evaluation mode while the
\* forward pass of t runs.
EvalDuringForward(t) ==
    tpc[t] = "forward" => ~models[ctx[t]].training

\* The call of t entered inference_context and has left it.
ContextLeft(t) == CallEnded(t) /\ ctx[t] # 0

\* C11: the model is in evaluation mode for the whole forward pass, and
\* once the inference context is left, the forward pass having returned or
\* raised, the cached model is out of evaluation mode again.
C11_EvalModeReverted ==
    /\ EvalDuringForward(1)
    /\ ContextLeft(1) => models[infer_model].training

\* C11 for the calls that return: the forward pass raised nothing.
C11_EvalModeRevertedOnReturn ==
    /\ EvalDuringForward(1)
    /\ tpc[1] = "returned" => models[infer_model].training

\* The forward pass of t has run, on the model recorded in used[t].
ForwardRan(t) == used[t].id # 0

\* C12: whatever calls came before, frames on another device of the same
\* type included, the cached model a forward pass uses is on the device of
\* the frames passed to that call.
C12_ModelOnFramesDevice ==
    ForwardRan(1) => used[1].device = targs[1].device

\* C12 up to the device's index: the model is on a device of the frames'
\* device type.
C12_ModelOnFramesDeviceType ==
    ForwardRan(1) => used[1].device.type = targs[1].device.type

\* The call of t raised before it reached inference_context: in
\* penn.checkpoint.load or in .to(frames.device).
RaisedInLoadOrMove(t) == tpc[t] = "raised" /\ ctx[t] = 0

\* C13: after a call that raised while loading the checkpoint or moving
\* the model, the handle is as the call found it, or its model was loaded
\* from its checkpoint and is on a device of its device type.
C13_HandleConsistentAfterRaise ==
    RaisedInLoadOrMove(1) =>
        \/ Handle = pre[1]
        \/ infer_model # 0 /\ HandleDescribesModel

\* C13 for the load alone: a load that raises leaves the handle as it was.
C13_LoadRaiseKeepsHandle ==
    [][(tpc[1] = "load" /\ tpc'[1] = "raised") => Handle' = Handle]_vars

\* =========================================================================
\* postprocess (the postprocessor)
\* =========================================================================
\* The pitch-bin axis has PitchBins bins, and a frequency is given by its
\* place on that axis (linear in log-frequency) in steps of 1/SubBin of a
\* bin: bin b is the frequency b * SubBin.
PitchBins == 3
SubBin == 2
Bins == 0..(PitchBins - 1)

\* The model's scores; NegInf is -float('inf').
Scores == {0, 1}
NegInf == 0 - 1

\* The cost viterbi puts on a jump of one bin between two frames.
JumpCost == 2

\* The strategy names, as Python strings.
Argmax == <<"a", "r", "g", "m", "a", "x">>
Average == <<"a", "v", "e", "r", "a", "g", "e">>
Viterbi == <<"v", "i", "t", "e", "r", "b", "i">>
ViterbiVariant == <<"v", "i", "t", "e", "r", "b", "i", "-", "x">>
Viter == <<"v", "i", "t", "e", "r">>
Weighted == <<"w", "e", "i", "g", "h", "t", "e", "d">>
Entropy == <<"e", "n", "t", "r", "o", "p", "y">>
MaxName == <<"m", "a", "x">>
SumName == <<"s", "u", "m">>
Other == <<"o", "t", "h", "e", "r">>

DecoderNames == {Argmax, Average, Viterbi, ViterbiVariant, Viter, Weighted,
                 Other}
PeriodicityNames == {Entropy, MaxName, SumName, Other}

\* str.startswith
StartsWith(str, prefix) ==
    /\ Len(str) >= Len(prefix)
    /\ SubSeq(str, 1, Len(prefix)) = prefix

\* penn.convert.frequency_to_bins(frequency): the bin at or below it.
FrequencyToBins(f) == f \div SubBin

\* penn.convert.frequency_to_bins(frequency, torch.ceil)
FrequencyToBinsCeil(f) == (f + SubBin - 1) \div SubBin

\* penn.convert.bins_to_frequency(bins)
BinsToFrequency(b) == b * SubBin

\* Lines 257-258 with their upper slice left out.
MaskRowBelowOnly(row, minidx, maxidx) ==
    [b \in Bins |-> IF b < minidx THEN NegInf ELSE row[b]]

\* Lines 257-258 on one frame's row:
\* logits[:, :minidx] = -inf; logits[:, maxidx:] = -inf
MaskRow(row, minidx, maxidx) ==
    [b \in Bins |-> IF b < minidx \/ b >= maxidx THEN NegInf ELSE row[b]]

Mask(lg, minidx, maxidx) ==
    [k \in DOMAIN lg |-> MaskRow(lg[k], minidx, maxidx)]

\* The weight a score has in a softmax: positive, growing with the score,
\* and zero for -inf.
Weight(x) == IF x = NegInf THEN 0 ELSE 2 ^ x

RECURSIVE SumOver(_, _, _)
SumOver(row, bs, withBin) ==
    IF bs = {} THEN 0
    ELSE LET b == CHOOSE x \in bs : TRUE
         IN (IF withBin THEN Weight(row[b]) * BinsToFrequency(b)
             ELSE Weight(row[b])) + SumOver(row, bs \ {b}, withBin)

\* The weighted mean frequency of the bins bs of a row, as <<numerator,
\* denominator>> (a zero denominator is NaN).
Centroid(row, bs) == <<SumOver(row, bs, TRUE), SumOver(row, bs, FALSE)>>

\* torch.argmax over the bins of one row: the first of the highest scores.
ArgmaxBin(row) ==
    CHOOSE b \in Bins :
        /\ \A c \in Bins : row[c] <= row[b]
        /\ \A c \in Bins : c < b => row[c] < row[b]

\* penn.decode.argmax: the highest-scoring bin of each frame and its
\* frequency.
DecodeArgmax(lg) ==
    [bins |-> [k \in DOMAIN lg |-> ArgmaxBin(lg[k])],
     pitch |-> [k \in DOMAIN lg |-> <<BinsToFrequency(ArgmaxBin(lg[k])), 1>>]]

\* penn.decode.average: the weighted centroid of the bins in a window
\* around the peak.
DecodeAverage(lg) ==
    [bins |-> [k \in DOMAIN lg |-> ArgmaxBin(lg[k])],
     pitch |-> [k \in DOMAIN lg |->
        LET peak == ArgmaxBin(lg[k])
        IN Centroid(lg[k], {b \in Bins : b >= peak - 1 /\ b <= peak + 1})]]

\* penn.decode.weighted: the softmax-weighted average over all bins.
DecodeWeighted(lg) ==
    [bins |-> [k \in DOMAIN lg |-> ArgmaxBin(lg[k])],
     pitch |-> [k \in DOMAIN lg |-> Centroid(lg[k], Bins)]]

\* penn.decode.viterbi: the bin sequence over the frames of the batch with
\* the highest total score, a jump of d bins between two frames costing
\* d * JumpCost; a path through a bin at -inf scores -inf.
Paths(n) == [1..n -> Bins]

Abs(x) == IF x < 0 THEN 0 - x ELSE x

RECURSIVE PathScore(_, _, _)
PathScore(lg, path, k) ==
    IF k = 0 THEN 0
    ELSE lg[k][path[k]]
         - (IF k > 1 THEN JumpCost * Abs(path[k] - path[k - 1]) ELSE 0)
         + PathScore(lg, path, k - 1)

Finite(lg, path) == \A k \in DOMAIN lg : lg[k][path[k]] # NegInf

\* Below the score of every path of n frames through finite scores.
MinusInfinity(n) == 0 - (JumpCost * PitchBins * n) - 1

\* p comes before q in the order of the bin sequences.
Before(p, q) ==
    \E k \in DOMAIN p :
        /\ p[k] < q[k]
        /\ \A j \in DOMAIN p : j < k => p[j] = q[j]

\* The best path, and the first of them when several are best.
ViterbiPath(lg) ==
    LET n == Len(lg)
        score == [p \in Paths(n) |->
                    IF Finite(lg, p) THEN PathScore(lg, p, n)
                    ELSE MinusInfinity(n)]
        scores == {score[p] : p \in Paths(n)}
        highest == CHOOSE v \in scores : \A w \in scores : w <= v
        best == {p \in Paths(n) : score[p] = highest}
    IN CHOOSE p \in best : \A q \in best \ {p} : Before(p, q)

DecodeViterbi(lg) ==
    LET path == ViterbiPath(lg)
    IN [bins |-> path,
        pitch |-> [k \in DOMAIN lg |-> <<BinsToFrequency(path[k]), 1>>]]

\* penn.periodicity.entropy, max and sum: each a function of one frame's
\* row at a time.
DecodePeriodicity(method, lg) ==
    [k \in DOMAIN lg |-> [method |-> method, row |-> lg[k]]]

\* Lines 261-270 with startswith replaced by ==.
DecoderBranchExact(name) ==
    IF name = Argmax THEN "argmax"
    ELSE IF name = Average THEN "average"
    ELSE IF name = Viterbi THEN "viterbi"
    ELSE IF name = Weighted THEN "weighted"
    ELSE "error"

\* Lines 261-270: the branch the if/elif chain takes on penn.DECODER.
DecoderBranch(name) ==
    IF name = Argmax THEN "argmax"
    ELSE IF name = Average THEN "average"
    ELSE IF StartsWith(name, Viterbi) THEN "viterbi"
    ELSE IF name = Weighted THEN "weighted"
    ELSE "error"

\* Lines 273-281: the branch taken on penn.PERIODICITY.
PeriodicityBranch(name) ==
    IF name = Entropy THEN "entropy"
    ELSE IF name = MaxName THEN "max"
    ELSE IF name = SumName THEN "sum"
    ELSE "error"

Decode(branch, lg) ==
    IF branch = "argmax" THEN DecodeArgmax(lg)
    ELSE IF branch = "average" THEN DecodeAverage(lg)
    ELSE IF branch = "viterbi" THEN DecodeViterbi(lg)
    ELSE DecodeWeighted(lg)

\* postprocess(logits, fmin, fmax) under the configuration (decoder,
\* periodicity): what it raises or returns, the logits as it leaves them
\* (they are masked in place) and the strategies it applied, in order.
Postprocess(lg, lo, hi, decoder, method) ==
    LET minidx == FrequencyToBins(lo)
        maxidx == FrequencyToBinsCeil(hi)
        masked == Mask(lg, minidx, maxidx)
        db == DecoderBranch(decoder)
        pb == PeriodicityBranch(method)
    IN IF db = "error"
       THEN [status |-> "raised", named |-> decoder, logits |-> masked,
             applied |-> <<>>, bins |-> <<>>, pitch |-> <<>>,
             periodicity |-> <<>>]
       ELSE IF pb = "error"
       THEN [status |-> "raised", named |-> method, logits |-> masked,
             applied |-> <<db>>, bins |-> <<>>, pitch |-> <<>>,
             periodicity |-> <<>>]
       ELSE LET decoded == Decode(db, masked)
            IN [status |-> "returned", named |-> <<>>, logits |-> masked,
                applied |-> <<db, pb>>,
                bins |-> decoded.bins,
                pitch |-> decoded.pitch,
                periodicity |-> DecodePeriodicity(pb, masked)]

NoPost == [status |-> "none", named |-> <<>>, logits |-> <<>>,
           applied |-> <<>>, bins |-> <<>>, pitch |-> <<>>,
           periodicity |-> <<>>]

\* The batches of logits of n frames.
Logits(n) == [1..n -> [Bins -> Scores]]

\* The frequencies inside the bin range: those frequency_to_bins sends to
\* a bin of the axis.
Frequencies == 0..(BinsToFrequency(PitchBins) - 1)

\* Before postprocess is called.
IdlePost ==
    /\ DECODER = Argmax
    /\ PERIODICITY = Entropy
    /\ fmin = 0
    /\ fmax = 0
    /\ logits = <<>>
    /\ qpc = "idle"
    /\ post = NoPost

InitPost ==
    /\ DECODER \in DecoderNames
    /\ PERIODICITY \in PeriodicityNames
    /\ fmin \in Frequencies
    /\ fmax \in {f \in Frequencies : fmin <= f}
    /\ \E n \in 1..MaxPostFrames : logits \in Logits(n)
    /\ qpc = "start"
    /\ post = NoPost

\* One call of postprocess, lines 245-283.
PostprocessCall ==
    /\ qpc = "start"
    /\ post' = Postprocess(logits, fmin, fmax, DECODER, PERIODICITY)
    /\ logits' = post'.logits
    /\ qpc' = post'.status
    /\ UNCHANGED <<DECODER, PERIODICITY, fmin, fmax>>
    /\ UNCHANGED <<preVars, inferVars, audioVars, fileVars>>

NextPost == PostprocessCall

\* ------------------------------------------------------------------------
\* Claims about postprocess
\* ------------------------------------------------------------------------
PostEnded == qpc \in {"returned", "raised"}

MinIdx == FrequencyToBins(fmin)
MaxIdx == FrequencyToBinsCeil(fmax)

\* Every logit outside [minidx, maxidx) is -inf.
OutsideMasked ==
    \A k \in DOMAIN logits : \A b \in Bins :
        (b < MinIdx \/ b >= MaxIdx) => logits[k][b] = NegInf

\* A pitch <<n, d>> is a frequency within [fmin, fmax] up to one bin width.
PitchWithinRange(p) ==
    /\ p[2] > 0
    /\ p[1] > (fmin - SubBin) * p[2]
    /\ p[1] < (fmax + SubBin) * p[2]

\* Every frame's bin lies in [minidx, maxidx) and its pitch in the range.
DecodedInRange ==
    \A k \in DOMAIN post.bins :
        /\ post.bins[k] >= MinIdx
        /\ post.bins[k] < MaxIdx
        /\ PitchWithinRange(post.pitch[k])

RaisesIffUnknown(decoderKnown, periodicityKnown) ==
    /\ qpc = "raised" <=> ~(decoderKnown /\ periodicityKnown)
    /\ qpc = "raised" =>
          /\ post.named = IF ~decoderKnown THEN DECODER ELSE PERIODICITY
          /\ ~decoderKnown => post.applied = <<>>
          /\ Len(post.applied) <= 1
    /\ qpc = "returned" =>
          /\ Len(post.applied) = 2
          /\ post.applied[1] \in {"argmax", "average", "viterbi", "weighted"}
          /\ post.applied[2] \in {"entropy", "max", "sum"}

\* C6: postprocess raises a value error naming the bad identifier whenever
\* the decoder name is not one of argmax, average, viterbi, weighted or the
\* periodicity name is not one of entropy, max, sum; it returns only when
\* both are recognized, having applied one decoder and one periodicity
\* strategy.
C6_RaisesUnlessListed ==
    PostEnded =>
        RaisesIffUnknown(DECODER \in {Argmax, Average, Viterbi, Weighted},
                         PERIODICITY \in {Entropy, MaxName, SumName})

\* C6, amended: the recognized decoder names are argmax, average, weighted
\* and every name that starts with viterbi.
C6_RaisesUnlessListedOrViterbiPrefix ==
    PostEnded =>
        RaisesIffUnknown(\/ DECODER \in {Argmax, Average, Weighted}
                         \/ StartsWith(DECODER, Viterbi),
                         PERIODICITY \in {Entropy, MaxName, SumName})

\* A call raised naming a decoder that is a proper prefix of viterbi.
C6_RaisedNamingDecoder ==
    /\ qpc = "raised"
    /\ DECODER = Viter
    /\ post.named = Viter
    /\ post.applied = <<>>

\* =========================================================================
\* from_audio (the orchestrator over one buffer)
\* =========================================================================
DefaultCheckpoint == "a.pt"

\* 'cpu' if gpu is None else f'cuda:{gpu}'
Device(g) == IF g = None THEN CPU ELSE [type |-> "cuda", index |-> g]

NoResult == [pitch |-> <<>>, periodicity |-> <<>>]

RECURSIVE Cat(_)
\* torch.cat(list, 1): the batches' values one after the other.
Cat(list) == IF list = <<>> THEN <<>> ELSE Head(list) \o Cat(Tail(list))

\* Before from_audio is called.
IdleAudio ==
    /\ apc = "idle"
    /\ gpu = None
    /\ net = <<>>
    /\ pitch = <<>>
    /\ periodicity = <<>>
    /\ result = NoResult

\* from_audio is called for the first time in the process, with the default
\* fmin, fmax and checkpoint, on audio of up to MaxAudioFrames hops of one
\* sample, the window being one hop (no padding, one frame for each hop).
InitAudio ==
    /\ window = 1
    /\ hopsize = 1
    /\ samples \in 0..MaxAudioFrames
    /\ batch_size \in {None} \cup (1..MaxBatch)
    /\ ppc = "start"
    /\ perr = "none"
    /\ total_frames = 0
    /\ padded = 0
    /\ step = 0
    /\ i = 0
    /\ yielded = <<>>
    /\ DECODER \in DecoderNames
    /\ PERIODICITY \in PeriodicityNames
    /\ fmin = 0
    /\ fmax = BinsToFrequency(PitchBins) - 1
    /\ logits = <<>>
    /\ qpc = "idle"
    /\ post = NoPost
    /\ apc = "iter"
    /\ gpu \in {None, 0}
    /\ net = <<>>
    /\ pitch = <<>>
    /\ periodicity = <<>>
    /\ result = NoResult

\* Line 53, the first next(iterator): the generator runs up to its loop.
AudioStart ==
    /\ apc = "iter"
    /\ PreprocessStartStep
    /\ apc' = IF ppc' = "error" THEN "raised" ELSE "iter"
    /\ UNCHANGED <<gpu, net, pitch, periodicity, result>>
    /\ UNCHANGED <<inferVars, postVars, fileVars>>

\* Line 53: the generator yields the next batch, or raises.
AudioFetch ==
    /\ apc = "iter"
    /\ PreprocessBatchStep
    /\ apc' = IF ppc' = "error" THEN "raised" ELSE "infer"
    /\ UNCHANGED <<gpu, net, pitch, periodicity, result>>
    /\ UNCHANGED <<inferVars, postVars, fileVars>>

\* Line 53: the generator is exhausted and the loop ends.
AudioExhausted ==
    /\ apc = "iter"
    /\ PreprocessDoneStep
    /\ apc' = "cat"
    /\ UNCHANGED <<gpu, net, pitch, periodicity, result>>
    /\ UNCHANGED <<inferVars, postVars, fileVars>>

\* Lines 56-60: the frames go to the device and infer is called.
AudioInfer ==
    /\ apc = "infer"
    /\ CallStep(1, DefaultCheckpoint, Device(gpu), MaxAudioFrames)
    /\ apc' = "model"
    /\ UNCHANGED <<gpu, net, pitch, periodicity, result>>
    /\ UNCHANGED <<preVars, postVars, fileVars>>

\* Line 60: infer returns the logits of the batch's frames, one row for
\* each frame of the tensor.
AudioLogits ==
    /\ apc = "model"
    /\ tpc[1] = "returned"
    /\ \E lg \in Logits(yielded[Len(yielded)].frames) :
          /\ logits' = lg
          /\ net' = net \o lg
    /\ apc' = "post"
    /\ UNCHANGED <<gpu, pitch, periodicity, result>>
    /\ UNCHANGED <<DECODER, PERIODICITY, fmin, fmax, qpc, post>>
    /\ UNCHANGED <<preVars, inferVars, fileVars>>

\* Line 60: infer raised, and so does from_audio.
AudioInferRaised ==
    /\ apc = "model"
    /\ tpc[1] = "raised"
    /\ apc' = "raised"
    /\ UNCHANGED <<gpu, net, pitch, periodicity, result>>
    /\ UNCHANGED <<preVars, inferVars, postVars, fileVars>>

\* Lines 63-66: postprocess the batch and append its pitch and periodicity.
AudioPostprocess ==
    /\ apc = "post"
    /\ post' = Postprocess(logits, fmin, fmax, DECODER, PERIODICITY)
    /\ logits' = post'.logits
    /\ qpc' = post'.status
    /\ IF post'.status = "raised"
       THEN /\ apc' = "raised"
            /\ UNCHANGED <<pitch, periodicity>>
       ELSE /\ apc' = "iter"
            /\ pitch' = Append(pitch, post'.pitch)
            /\ periodicity' = Append(periodicity, post'.periodicity)
    /\ UNCHANGED <<gpu, net, result>>
    /\ UNCHANGED <<DECODER, PERIODICITY, fmin, fmax>>
    /\ UNCHANGED <<preVars, inferVars, fileVars>>

\* Line 69: torch.cat raises on an empty list.
AudioCat ==
    /\ apc = "cat"
    /\ IF pitch = <<>>
       THEN /\ apc' = "raised"
            /\ UNCHANGED result
       ELSE /\ apc' = "returned"
            /\ result' = [pitch |-> Cat(pitch),
                          periodicity |-> Cat(periodicity)]
    /\ UNCHANGED <<gpu, net, pitch, periodicity>>
    /\ UNCHANGED <<preVars, inferVars, postVars, fileVars>>

NextAudio ==
    \/ AudioStart
    \/ AudioFetch
    \/ AudioExhausted
    \/ AudioInfer
    \/ Check(1)
    \/ \E ok \in BOOLEAN : Load(1, ok)
    \/ SetCheckpoint(1)
    \/ SetDeviceType(1)
    \/ \E ok \in BOOLEAN : MoveToDevice(1, ok)
    \/ StoreMoved(1)
    \/ EnterContext(1)
    \/ \E ok \in BOOLEAN : Forward(1, ok)
    \/ ExitContext(1)
    \/ AudioLogits
    \/ AudioInferRaised
    \/ AudioPostprocess
    \/ AudioCat

\* ------------------------------------------------------------------------
\* Claims about from_audio
\* ------------------------------------------------------------------------
\* What from_audio returns when all the frames go through in one batch.
OneBatch == Postprocess(net, fmin, fmax, DECODER, PERIODICITY)

\* C4: from_audio over two batches returns the pitch and the periodicity it
\* returns with all the frames in one batch, whatever the decoder.
C4_TwoBatchesAsOne ==
    (apc = "returned" /\ Len(pitch) = 2) =>
        /\ result.pitch = OneBatch.pitch
        /\ result.periodicity = OneBatch.periodicity

\* C4 for the decoders that decode each frame by itself.
C4_TwoBatchesAsOneFramewise ==
    (apc = "returned" /\ Len(pitch) = 2
        /\ DecoderBranch(DECODER) # "viterbi") =>
        /\ result.pitch = OneBatch.pitch
        /\ result.periodicity = OneBatch.periodicity

\* =========================================================================
\* from_file_to_file and from_files_to_files (the file-level entry points)
\* =========================================================================
\* A path is its parent directory and the dot-separated parts of its name.
Path(parent, name) == [parent |-> parent, name |-> name]

\* The output_prefix None, as a path no caller passes.
NoPath == Path("", <<>>)

\* pathlib's stem: the name without its last suffix.
Stem(name) == IF Len(name) > 1 THEN SubSeq(name, 1, Len(name) - 1) ELSE name

\* Line 150: file.parent / file.stem
DerivedPrefix(file) == Path(file.parent, Stem(file.name))

\* Lines 153-154: f'{output_prefix}-pitch.pt', f'{output_prefix}-periodicity.pt'
PitchFile(prefix) == [prefix |-> prefix, suffix |-> "-pitch.pt"]

PeriodicityFile(prefix) == [prefix |-> prefix, suffix |-> "-periodicity.pt"]

AudioFiles == {Path("d", <<"a", "wav">>), Path("d", <<"a", "mp3">>),
               Path("e", <<"b", "x", "wav">>)}

Prefixes == {NoPath, Path("d", <<"a">>), Path("o", <<"p">>)}

\* The sequences over S of length at most n.
SeqUpTo(S, n) == UNION {[1..k -> S] : k \in 0..n}

\* output_prefixes=None
NoList == [given |-> FALSE, list |-> <<>>]

List(l) == [given |-> TRUE, list |-> l]

NoCurrent == [index |-> 0, file |-> NoPath, output_prefix |-> NoPath]

\* Lines 184-187: zip(files, output_prefixes), which stops at the end of
\* the shorter list, numbered by position.
Zip(fs, ps) ==
    [k \in 1..Min(Len(fs), Len(ps)) |->
        [index |-> k, file |-> fs[k], output_prefix |-> ps[k]]]

\* Lines 180-181: len(files) * [None]
DefaultPrefixes(fs) == [k \in 1..Len(fs) |-> NoPath]

\* Lines 149-150: the prefix from_file_to_file saves under.
OutputPrefix(c) ==
    IF c.output_prefix = NoPath THEN DerivedPrefix(c.file)
    ELSE c.output_prefix

\* No try/except around the call at line 190: an exception leaves the loop.
AfterRaiseIsolated == "loop"

AfterRaise == "raised"

Event(c, stage, ok) == [index |-> c.index, stage |-> stage, ok |-> ok]

\* Before from_files_to_files is called.
IdleFiles ==
    /\ files = <<>>
    /\ output_prefixes = NoList
    /\ fpc = "idle"
    /\ pairs = <<>>
    /\ current = NoCurrent
    /\ disk = <<>>
    /\ log = <<>>

\* from_files_to_files is called with up to MaxFiles files and with no
\* output_prefixes or a list of them, of any length up to MaxFiles, on a
\* disk with no artifacts.
InitFiles ==
    /\ files \in SeqUpTo(AudioFiles, MaxFiles)
    /\ output_prefixes \in {NoList} \cup
                           {List(l) : l \in SeqUpTo(Prefixes, MaxFiles)}
    /\ fpc = "start"
    /\ pairs = <<>>
    /\ current = NoCurrent
    /\ disk = <<>>
    /\ log = <<>>

\* Lines 180-187: default the prefixes and zip.
FilesStart ==
    /\ fpc = "start"
    /\ pairs' = Zip(files, IF output_prefixes.given THEN output_prefixes.list
                           ELSE DefaultPrefixes(files))
    /\ fpc' = "loop"
    /\ UNCHANGED <<files, output_prefixes, current, disk, log>>
    /\ UNCHANGED <<preVars, inferVars, postVars, audioVars>>

\* Lines 184-190: the next pair, and the call of from_file_to_file.
FilesNext ==
    /\ fpc = "loop"
    /\ pairs # <<>>
    /\ current' = Head(pairs)
    /\ pairs' = Tail(pairs)
    /\ fpc' = "load"
    /\ UNCHANGED <<files, output_prefixes, disk, log>>
    /\ UNCHANGED <<preVars, inferVars, postVars, audioVars>>

\* Line 184: the pairs are exhausted and from_files_to_files returns.
FilesDone ==
    /\ fpc = "loop"
    /\ pairs = <<>>
    /\ fpc' = "returned"
    /\ UNCHANGED <<files, output_prefixes, pairs, current, disk, log>>
    /\ UNCHANGED <<preVars, inferVars, postVars, audioVars>>

\* Lines 95-97: penn.load.audio, which returns or raises.
FileLoad(ok) ==
    /\ fpc = "load"
    /\ log' = Append(log, Event(current, "load", ok))
    /\ fpc' = IF ok THEN "infer" ELSE AfterRaise
    /\ UNCHANGED <<files, output_prefixes, pairs, current, disk>>
    /\ UNCHANGED <<preVars, inferVars, postVars, audioVars>>

\* Lines 99-108 and 133-144: from_audio and the copy to the cpu, which
\* return or raise.
FileInfer(ok) ==
    /\ fpc = "infer"
    /\ log' = Append(log, Event(current, "infer", ok))
    /\ fpc' = IF ok THEN "save-pitch" ELSE AfterRaise
    /\ UNCHANGED <<files, output_prefixes, pairs, current, disk>>
    /\ UNCHANGED <<preVars, inferVars, postVars, audioVars>>

\* torch.save(value, path): the file holds the value, or torch.save raises
\* and leaves the path as it was or with an incomplete file.
Save(path, kind, ok, partial) ==
    IF ok \/ partial
    THEN [q \in DOMAIN disk \cup {path} |->
            IF q = path
            THEN [by |-> current.index, kind |-> kind, whole |-> ok]
            ELSE disk[q]]
    ELSE disk

\* Line 153: torch.save(pitch, f'{output_prefix}-pitch.pt')
FileSavePitch(ok, partial) ==
    /\ fpc = "save-pitch"
    /\ disk' = Save(PitchFile(OutputPrefix(current)), "pitch", ok, partial)
    /\ log' = Append(log, Event(current, "save-pitch", ok))
    /\ fpc' = IF ok THEN "save-periodicity" ELSE AfterRaise
    /\ UNCHANGED <<files, output_prefixes, pairs, current>>
    /\ UNCHANGED <<preVars, inferVars, postVars, audioVars>>

\* Line 154: torch.save(periodicity, f'{output_prefix}-periodicity.pt')
FileSavePeriodicity(ok, partial) ==
    /\ fpc = "save-periodicity"
    /\ disk' = Save(PeriodicityFile(OutputPrefix(current)), "periodicity",
                    ok, partial)
    /\ log' = Append(log, Event(current, "save-periodicity", ok))
    /\ fpc' = IF ok THEN "loop" ELSE AfterRaise
    /\ UNCHANGED <<files, output_prefixes, pairs, current>>
    /\ UNCHANGED <<preVars, inferVars, postVars, audioVars>>

NextFiles ==
    \/ FilesStart
    \/ FilesNext
    \/ FilesDone
    \/ \E ok \in BOOLEAN : FileLoad(ok)
    \/ \E ok \in BOOLEAN : FileInfer(ok)
    \/ \E ok, partial \in BOOLEAN : FileSavePitch(ok, partial)
    \/ \E ok, partial \in BOOLEAN : FileSavePeriodicity(ok, partial)

\* ------------------------------------------------------------------------
\* Claims about from_files_to_files
\* ------------------------------------------------------------------------
Stages == <<"load", "infer", "save-pitch", "save-periodicity">>

StageOf(e) == CHOOSE k \in 1..Len(Stages) : Stages[k] = e.stage

\* e2 is the step that follows e1: the next stage of the same file, or the
\* load of the next file after the last stage of this one.
Follows(e1, e2) ==
    \/ e2.index = e1.index /\ StageOf(e2) = StageOf(e1) + 1
    \/ /\ StageOf(e1) = Len(Stages)
       /\ e2.index = e1.index + 1
       /\ StageOf(e2) = 1

\* The steps taken are those of the files in list order, each file's load,
\* inference and two saves before the next file's.
InListOrder ==
    /\ log # <<>> => (log[1].index = 1 /\ StageOf(log[1]) = 1)
    /\ \A k \in 1..(Len(log) - 1) : Follows(log[k], log[k + 1])
    /\ \A k \in 1..Len(log) :
          log[k].index <= Len(files) => current.index >= log[k].index

\* Nothing is done after a step that raised.
NothingAfterRaise ==
    /\ \A k \in 1..(Len(log) - 1) : log[k].ok
    /\ (log # <<>> /\ ~log[Len(log)].ok) => fpc = "raised"
    /\ fpc = "raised" => \A q \in DOMAIN disk : disk[q].by <= current.index

\* The files of the pair numbered k.
ArtifactsOf(k) ==
    LET c == Zip(files, IF output_prefixes.given THEN output_prefixes.list
                        ELSE DefaultPrefixes(files))[k]
    IN  {PitchFile(OutputPrefix(c)), PeriodicityFile(OutputPrefix(c))}

\* Every save that returned left a file that is still there.
ArtifactsRemain ==
    \A k \in 1..Len(log) :
        (log[k].ok /\ StageOf(log[k]) >= 3) =>
            \E q \in ArtifactsOf(log[k].index) \cap DOMAIN disk :
                disk[q].kind = IF StageOf(log[k]) = 3 THEN "pitch"
                               ELSE "periodicity"

PrefixFor(k) ==
    IF /\ output_prefixes.given
       /\ k <= Len(output_prefixes.list)
       /\ output_prefixes.list[k] # NoPath
    THEN output_prefixes.list[k]
    ELSE DerivedPrefix(files[k])

\* C8: when from_files_to_files returns, each file of the list has its
\* pitch and periodicity files on disk under its prefix, whatever
\* output_prefixes is.
C8_EveryFileSaved ==
    fpc = "returned" =>
        \A k \in 1..Len(files) :
            /\ PitchFile(PrefixFor(k)) \in DOMAIN disk
            /\ PeriodicityFile(PrefixFor(k)) \in DOMAIN disk

\* C8 for output_prefixes None or at least as long as files.
C8_EveryFileSavedWhenPaired ==
    (/\ fpc = "returned"
     /\ output_prefixes.given => Len(output_prefixes.list) >= Len(files)) =>
        \A k \in 1..Len(files) :
            /\ PitchFile(PrefixFor(k)) \in DOMAIN disk
            /\ PeriodicityFile(PrefixFor(k)) \in DOMAIN disk

\* =========================================================================
\* The specifications
\* =========================================================================
InitPreSpec == InitPre /\ IdleInfer /\ IdlePost /\ IdleAudio /\ IdleFiles

InitInferSpec == IdlePre /\ InitInfer /\ IdlePost /\ IdleAudio /\ IdleFiles

InitPostSpec == IdlePre /\ IdleInfer /\ InitPost /\ IdleAudio /\ IdleFiles

InitAudioSpec == InitAudio /\ IdleInfer /\ IdleFiles

InitFilesSpec == IdlePre /\ IdleInfer /\ IdlePost /\ IdleAudio /\ InitFiles

SpecPre == InitPreSpec /\ [][NextPre]_vars

SpecInfer == InitInferSpec /\ [][NextInfer]_vars

SpecReliable == InitInferSpec /\ [][NextReliable]_vars

SpecThreads == InitInferSpec /\ [][NextThreads]_vars

SpecPost == InitPostSpec /\ [][NextPost]_vars

SpecAudio == InitAudioSpec /\ [][NextAudio]_vars

SpecFiles == InitFilesSpec /\ [][NextFiles]_vars

====
